---- MODULE Spec2Model ----
(***************************************************************************)
(* Model of the homily monitor (kjrose/homily-podcast-tool):               *)
(*   - the structured store (homilies, compared_groups) of database.py,    *)
(*   - the weekend grouping rule of analyze_transcript_with_gpt,           *)
(*   - the deviation sweep check_for_completed_weekends, in its two        *)
(*     revisions (homily_monitor/helpers.py and homilyDownload.py),        *)
(*   - parse_timestamp and the cue parser of extract_homily_from_vtt,      *)
(*   - the boundary detector of extract_homily_from_vtt.                   *)
(* Times of cues are in milliseconds: parse_timestamp's float seconds,     *)
(* which carry three decimals, times 1000.                                 *)
(***************************************************************************)
EXTENDS Integers, Sequences, FiniteSets, TLC

VARIABLES
    impl,             \* which revision runs: "helpers" or "homilyDownload"
    now,              \* the wall clock (UTC), a datetime
    homilies,         \* table homilies, rows in rowid order
    compared_groups,  \* table compared_groups, rows in insertion order
    pc,               \* "idle", or "sweep" inside check_for_completed_weekends
    sweepNow,         \* the sweep's local `now`, read once at its start
    groups,           \* the keys of the sweep's `groups` list not yet visited
    sweepResult,      \* how the last sweep ended: "none", "returned", "raised"
    calls,            \* per key: classifier requests made (chat.completions.create)
    emails,           \* per key: send_deviation_email calls made
    lastEval,         \* what the sweep did with the key it visited last
    gkIn,             \* grouping rule, input: the recording's last_mod
    gkOut,            \* grouping rule, output: the group key text
    lines,            \* the lines of the VTT document, as read
    ln,               \* the index of the line the parser's loop reads next
    current_time,     \* parser: None or Some(<<start, end>>) of the open cue
    current_text,     \* parser: the text accumulated for the open cue
    invalid_ts_count, \* parser: separator lines counted as invalid
    entries,          \* the cues parsed from the VTT document
    dpc,              \* pass: "none", "parsing", "parsed" or "done"
    homily_start,     \* None or Some(milliseconds)
    homily_end,       \* None or Some(milliseconds)
    gpt_calls,        \* fallback requests made in the pass
    gpt_reply,        \* None or Some(reply): what the fallback request gave
    alerts,           \* kinds of send_email_alert calls made in the pass
    trim,             \* None or Some(<<start, end>>): the ffmpeg cut
    undelivered,      \* the alerts of the pass whose SMTP session failed
    tsIn,             \* parse_timestamp, input: the timestamp text
    tsOut,            \* parse_timestamp, output: None, or Some(result)
    S3_ALERT_STATE,   \* None, or Some([stage, next_allowed]) of key "s3"
    s3_clock,         \* datetime.now() of s3_utils, in minutes
    s3_mails,         \* the alerts of s3_utils: sent, withheld, the last one
    s3_todo,          \* None, or Some(files left in `for file in s3_files`)
    s3_polls,         \* list_s3_files calls made
    s3_downloaded,    \* a download_file call has succeeded
    loop              \* the monitor's loop: "off", "poll", "sweep", "sleep", "dead"

storeVars == <<homilies, compared_groups>>
sweepVars == <<pc, sweepNow, groups, sweepResult, calls, emails, lastEval>>
groupVars == <<gkIn, gkOut>>
parseVars == <<lines, ln, current_time, current_text, invalid_ts_count>>
detectVars == <<entries, dpc, homily_start, homily_end, gpt_calls, gpt_reply,
                alerts, trim, undelivered>>
tsVars == <<tsIn, tsOut>>
s3Vars == <<S3_ALERT_STATE, s3_clock, s3_mails, s3_todo, s3_polls, s3_downloaded>>
monitorVars == <<loop>>
vars == <<impl, now, homilies, compared_groups, pc, sweepNow, groups,
          sweepResult, calls, emails, lastEval, gkIn, gkOut,
          lines, ln, current_time, current_text, invalid_ts_count,
          entries, dpc, homily_start, homily_end, gpt_calls, gpt_reply,
          alerts, trim, undelivered, tsIn, tsOut, S3_ALERT_STATE, s3_clock,
          s3_mails, s3_todo, s3_polls, s3_downloaded, loop>>

\* Python's None and a present value
None == <<>>
Some(v) == <<v>>

-----------------------------------------------------------------------------
(* Bounds of the model.                                                    *)

\* days of the clock's window after its first day
MaxDay == 1
\* rows the homilies table may hold
MaxRows == 3
\* classifier requests a behaviour may make for one key
MaxCalls == 2

-----------------------------------------------------------------------------
(* Calendar: datetime.date, date.weekday, timedelta(days=1), strftime and  *)
(* strptime with "%Y-%m-%d".  A date is <<year, month, day>>; a datetime   *)
(* is [date, hour, minute] (seconds are 0 at every instant of the model).  *)

IsLeap(y) == (y % 4 = 0) /\ ((y % 100 # 0) \/ (y % 400 = 0))

DaysInMonth(y, m) ==
    IF m = 2 THEN (IF IsLeap(y) THEN 29 ELSE 28)
    ELSE IF m \in {4, 6, 9, 11} THEN 30 ELSE 31

RECURSIVE DaysBeforeMonth(_, _)
DaysBeforeMonth(y, m) ==
    IF m <= 1 THEN 0 ELSE DaysBeforeMonth(y, m - 1) + DaysInMonth(y, m - 1)

\* date.toordinal(): 0001-01-01 is day 1
ToOrdinal(date) ==
    LET y == date[1] - 1
    IN  y * 365 + (y \div 4) - (y \div 100) + (y \div 400)
          + DaysBeforeMonth(date[1], date[2]) + date[3]

\* date.weekday(): Monday is 0, Saturday 5, Sunday 6
Weekday(date) == (ToOrdinal(date) + 6) % 7

\* date + timedelta(days=1)
NextDay(date) ==
    IF date[3] < DaysInMonth(date[1], date[2]) THEN <<date[1], date[2], date[3] + 1>>
    ELSE IF date[2] < 12 THEN <<date[1], date[2] + 1, 1>>
    ELSE <<date[1] + 1, 1, 1>>

\* A key text is a tuple of the numeric fields between its "-" separators.
\* strftime("%Y-%m-%d") writes the three fields of the date.
strftime(date) == <<date[1], date[2], date[3]>>

\* datetime.strptime(gk, "%Y-%m-%d"): [ok |-> TRUE, date |-> the date], or
\* ok = FALSE (ValueError) when the text has not three fields, or a month
\* outside 1..12, or a day the month lacks.
ParseFailed == [ok |-> FALSE, date |-> <<>>]

strptimeLax(gk) ==
    IF Len(gk) # 3 THEN ParseFailed
    ELSE [ok |-> TRUE, date |-> <<gk[1], gk[2], gk[3]>>]

strptime(gk) ==
    IF Len(gk) # 3 THEN ParseFailed
    ELSE IF gk[1] \notin 1..9999 \/ gk[2] \notin 1..12 THEN ParseFailed
    ELSE IF gk[3] \notin 1..DaysInMonth(gk[1], gk[2]) THEN ParseFailed
    ELSE [ok |-> TRUE, date |-> <<gk[1], gk[2], gk[3]>>]

\* a < b on datetimes
DtLess(a, b) ==
    LET u == <<a.date[1], a.date[2], a.date[3], a.hour, a.minute>>
        v == <<b.date[1], b.date[2], b.date[3], b.hour, b.minute>>
    IN  \E i \in 1..5 : u[i] < v[i] /\ \A j \in 1..(i - 1) : u[j] = v[j]

-----------------------------------------------------------------------------
(* The instants and texts the model draws its inputs from.                 *)

\* the clock's window starts on Saturday 2025-05-31
RECURSIVE DateAt(_)
DateAt(n) == IF n = 0 THEN <<2025, 5, 31>> ELSE NextDay(DateAt(n - 1))

ClockDates == {DateAt(n) : n \in 0..MaxDay}

At(date, hour, minute) == [date |-> date, hour |-> hour, minute |-> minute]

\* the instants the clock is read at: in the morning, at the deadline's own
\* instant, and after it
ClockPoints ==
    {At(d, 10, 0) : d \in ClockDates} \cup {At(d, 21, 0) : d \in ClockDates}
      \cup {At(d, 21, 30) : d \in ClockDates}

\* the instants a recording can carry as last_mod: the clock's, and the
\* afternoon either side of the vigil hour
RecordingTimes ==
    ClockPoints \cup {At(d, 14, 0) : d \in ClockDates}
      \cup {At(d, 15, 0) : d \in ClockDates}

\* a text that is no date: "2025-05-32"
BadKeys == {<<2025, 5, 32>>}

KeyTexts == {strftime(d) : d \in ClockDates \cup {NextDay(d) : d \in ClockDates}}
              \cup BadKeys

\* the recordings' file names (the sweep hands them to the classifier and
\* never branches on them)
Files == {"Mass-A.mp3"}

\* two recordings, for the runs in which the same recording is analysed
\* more than once and others are analysed too
Recordings == {"Mass-A.mp3", "Mass-B.mp3"}

\* what the language model's reply to the comparison prompt can be
Responses == {"similar", "deviations", "bad_json", "no_status", "api_error"}

\* what the language model's reply to the analysis prompt can be
AnalysisResults == {"ok", "bad_json", "missing_field", "api_error"}

-----------------------------------------------------------------------------
(* Grouping rule (analyze_transcript_with_gpt) and the store.              *)

Saturday == 5
Sunday == 6
VigilHour == 15
DeadlineHour == 21

GroupKeyLateVigil(last_mod) ==
    LET date == last_mod.date
        hour == last_mod.hour
        sunday == IF Weekday(date) = Saturday /\ hour > VigilHour
                  THEN NextDay(date) ELSE date
    IN  strftime(sunday)

GroupKey(last_mod) ==
    LET date == last_mod.date
        hour == last_mod.hour
        sunday == IF Weekday(date) = Saturday
                  THEN (IF hour >= VigilHour THEN NextDay(date) ELSE date)
                  ELSE IF Weekday(date) = Sunday THEN date
                  ELSE date
    IN  strftime(sunday)

Row(gk, fn) == [group_key |-> gk, filename |-> fn]

\* database.insert_homily: one more row, whatever the table holds already
insert_homily(gk, fn) == homilies' = Append(homilies, Row(gk, fn))

\* analyze_transcript_with_gpt(mp3_path, transcript_text, last_mod): a row is
\* inserted only when the reply parses and holds every field; every failure
\* is caught, alerted by email, and leaves the store as it was.
AnalyzeTranscript(fn, last_mod, result) ==
    /\ pc = "idle"
    /\ Len(homilies) < MaxRows
    /\ ~DtLess(now, last_mod)
    /\ IF result = "ok"
       THEN insert_homily(GroupKey(last_mod), fn)
       ELSE UNCHANGED homilies
    /\ UNCHANGED <<impl, now, compared_groups, sweepVars, groupVars, parseVars, detectVars,
                   tsVars, s3Vars, monitorVars>>

\* The tables are plain SQLite tables and group_key is unconstrained TEXT:
\* a row whose key is no date can only come from outside the analysis.
ForeignInsert(gk, fn) ==
    /\ pc = "idle"
    /\ Len(homilies) < MaxRows
    /\ insert_homily(gk, fn)
    /\ UNCHANGED <<impl, now, compared_groups, sweepVars, groupVars, parseVars, detectVars,
                   tsVars, s3Vars, monitorVars>>

\* Time passes.  The sweep reads the clock once, at its start, so the clock
\* is advanced between the handlers only.
Tick(t) ==
    /\ pc = "idle"
    /\ DtLess(now, t)
    /\ now' = t
    /\ UNCHANGED <<impl, storeVars, sweepVars, groupVars, parseVars, detectVars,
                   tsVars, s3Vars, monitorVars>>

-----------------------------------------------------------------------------
(* The deviation sweep: check_for_completed_weekends.                      *)

\* SELECT DISTINCT group_key FROM homilies: each key once, in the order of
\* its first row
RECURSIVE DistinctKeys(_)
DistinctKeys(rows) ==
    IF rows = <<>> THEN <<>>
    ELSE LET front == DistinctKeys(SubSeq(rows, 1, Len(rows) - 1))
             gk == rows[Len(rows)].group_key
         IN  IF \E i \in DOMAIN front : front[i] = gk THEN front
             ELSE Append(front, gk)

\* a row with this key exists in the table (group_key is its PRIMARY KEY)
Marked(table, gk) == \E i \in DOMAIN table : table[i] = gk

InComparedGroups(gk) == Marked(compared_groups, gk)

deadlineMidnight(sunday_date) == At(sunday_date, 0, 0)

\* sunday_date.replace(hour=21, minute=0, second=0, microsecond=0)
deadline(sunday_date) == At(sunday_date, DeadlineHour, 0)

\* now > deadline
PastDeadline(t, sunday_date) == DtLess(deadline(sunday_date), t)

\* SELECT 1 FROM compared_groups WHERE group_key = ? ... fetchone() is not None
AlreadyComparedNever(gk) == FALSE

AlreadyCompared(gk) == InComparedGroups(gk)

\* SELECT COUNT(*) FROM homilies WHERE group_key = ?
CountRows(gk) == Cardinality({i \in DOMAIN homilies : homilies[i].group_key = gk})

\* count >= 2
NeedsComparisonFromOne(count) == count >= 1

NeedsComparison(count) == count >= 2

Effect(outcome, called, emailed, marked, raised) ==
    [outcome |-> outcome, called |-> called, emailed |-> emailed,
     marked |-> marked, raised |-> raised]

\* The body of the loop for one key, given the classifier's reply should it
\* be asked: what is called, what is written, and whether an exception
\* leaves the loop.  `except ValueError` catches the strptime failure and
\* also json.JSONDecodeError, a subclass of ValueError; nothing catches the
\* API error, nor the KeyError of a reply without "status".  Only helpers.py
\* has the send_deviation_email call commented out.
Visit(gk, resp) ==
    LET parsed == strptime(gk)
    IN  IF ~parsed.ok THEN Effect("invalid_key", FALSE, FALSE, FALSE, FALSE)
        ELSE IF ~PastDeadline(sweepNow, parsed.date)
             THEN Effect("not_due", FALSE, FALSE, FALSE, FALSE)
        ELSE IF AlreadyCompared(gk)
             THEN Effect("already_compared", FALSE, FALSE, FALSE, FALSE)
        ELSE IF ~NeedsComparison(CountRows(gk))
             THEN Effect("too_few", FALSE, FALSE, TRUE, FALSE)
        ELSE CASE resp = "api_error" -> Effect(resp, TRUE, FALSE, FALSE, TRUE)
               [] resp = "bad_json" -> Effect(resp, TRUE, FALSE, FALSE, FALSE)
               [] resp = "no_status" -> Effect(resp, TRUE, FALSE, FALSE, TRUE)
               [] resp = "similar" -> Effect(resp, TRUE, FALSE, TRUE, FALSE)
               [] resp = "deviations" ->
                    Effect(resp, TRUE, impl = "homilyDownload", TRUE, FALSE)

\* the sweep's locals outside a sweep
NoDateTime == At(<<1, 1, 1>>, 0, 0)

\* now = datetime.now(timezone.utc); groups = [every distinct key]
SweepStart ==
    /\ pc = "idle"
    /\ \A k \in KeyTexts : calls[k] < MaxCalls
    /\ sweepNow' = IF DistinctKeys(homilies) = <<>> THEN NoDateTime ELSE now
    /\ groups' = DistinctKeys(homilies)
    /\ pc' = IF DistinctKeys(homilies) = <<>> THEN "idle" ELSE "sweep"
    /\ sweepResult' = IF DistinctKeys(homilies) = <<>> THEN "returned" ELSE "none"
    /\ UNCHANGED <<impl, now, storeVars, calls, emails, lastEval, groupVars, parseVars, detectVars,
                   tsVars, s3Vars, monitorVars>>

\* one iteration of `for gk in groups`
SweepKey(resp) ==
    /\ pc = "sweep"
    /\ groups # <<>>
    /\ LET gk == Head(groups)
           eff == Visit(gk, resp)
           \* INSERT INTO compared_groups: a second row for a key violates
           \* the PRIMARY KEY (sqlite3.IntegrityError, caught by nothing)
           integrity == eff.marked /\ InComparedGroups(gk)
           raised == eff.raised \/ integrity
       IN  /\ calls' = IF eff.called THEN [calls EXCEPT ![gk] = @ + 1] ELSE calls
           /\ emails' = IF eff.emailed THEN [emails EXCEPT ![gk] = @ + 1] ELSE emails
           /\ compared_groups' = IF eff.marked /\ ~integrity
                                 THEN Append(compared_groups, gk)
                                 ELSE compared_groups
           /\ lastEval' = [key |-> gk,
                           outcome |-> IF integrity THEN "integrity_error"
                                       ELSE eff.outcome]
           /\ groups' = Tail(groups)
           /\ pc' = IF raised \/ Tail(groups) = <<>> THEN "idle" ELSE "sweep"
           /\ sweepResult' = IF raised THEN "raised"
                             ELSE IF Tail(groups) = <<>> THEN "returned" ELSE "none"
           /\ sweepNow' = IF raised \/ Tail(groups) = <<>> THEN NoDateTime ELSE sweepNow
    /\ UNCHANGED <<impl, now, homilies, groupVars, parseVars, detectVars,
                   tsVars, s3Vars, monitorVars>>

-----------------------------------------------------------------------------
(* The monitoring loop: main() of main.py, which runs the package          *)
(* (impl = "helpers"), and main() of homilyDownload.py.                    *)

\* the statement that follows the `for file in s3_files` loop:
\* check_for_completed_weekends() in homilyDownload.py; in main.py the call
\* is commented out and time.sleep(60) is next
AfterFiles == IF impl = "homilyDownload" THEN "sweep" ELSE "sleep"

\* One poll iteration up to the end of `for file in s3_files`: no new file,
\* or a new file that is downloaded, transcribed and analysed.
MonitorPoll ==
    /\ loop = "poll"
    /\ \/ UNCHANGED homilies
       \/ \E fn \in Files, last_mod \in RecordingTimes, result \in AnalysisResults :
            /\ Len(homilies) < MaxRows
            /\ ~DtLess(now, last_mod)
            /\ IF result = "ok"
               THEN insert_homily(GroupKey(last_mod), fn)
               ELSE UNCHANGED homilies
    /\ sweepResult' = "none"
    /\ loop' = AfterFiles
    /\ UNCHANGED <<impl, now, compared_groups, pc, sweepNow, groups, calls, emails,
                   lastEval, groupVars, parseVars, detectVars, tsVars, s3Vars>>

\* check_for_completed_weekends() has returned, or an exception has left
\* it: main() of homilyDownload.py catches nothing, the loop is over
MonitorSweepDone ==
    /\ loop = "sweep"
    /\ pc = "idle"
    /\ sweepResult # "none"
    /\ loop' = IF sweepResult = "raised" THEN "dead" ELSE "sleep"
    /\ UNCHANGED <<impl, now, storeVars, sweepVars, groupVars, parseVars,
                   detectVars, tsVars, s3Vars>>

\* time.sleep(60): the clock of the model, which has three instants a day,
\* stands or moves on
MonitorSleep(t) ==
    /\ loop = "sleep"
    /\ ~DtLess(t, now)
    /\ now' = t
    /\ loop' = "poll"
    /\ UNCHANGED <<impl, storeVars, sweepVars, groupVars, parseVars, detectVars,
                   tsVars, s3Vars>>

-----------------------------------------------------------------------------
(* The grouping rule on its own: every weekday and hour of two weeks, one  *)
(* ending a month on a Saturday (2025-05-31), one ending a year on a       *)
(* Saturday (2022-12-31).                                                  *)

\* days of each week after its Monday
MaxGroupDay == 6

RECURSIVE DateFrom(_, _)
DateFrom(monday, n) == IF n = 0 THEN monday ELSE NextDay(DateFrom(monday, n - 1))

Mondays == {<<2025, 5, 26>>, <<2022, 12, 26>>}

GroupInputs ==
    {At(DateFrom(m, n), h, 0) : m \in Mondays, n \in 0..MaxGroupDay, h \in 0..23}

\* date = last_mod.date() ... group_key = sunday.strftime("%Y-%m-%d")
ApplyGroupKey ==
    /\ gkOut = <<>>
    /\ gkOut' = GroupKey(gkIn)
    /\ UNCHANGED <<impl, now, storeVars, sweepVars, gkIn, parseVars, detectVars,
                   tsVars, s3Vars, monitorVars>>

-----------------------------------------------------------------------------
(* Texts.  A text is a sequence of lexemes: words, punctuation marks and   *)
(* single spaces.  `in` and lower() work on whole lexemes.                 *)

Sp == <<" ">>

\* the words of a phrase with one space between them
RECURSIVE Spaced(_)
Spaced(words) ==
    IF Len(words) <= 1 THEN words
    ELSE <<words[1]>> \o Sp \o Spaced(Tail(words))

\* str.lower()
LowerWord(w) ==
    CASE w = "The" -> "the"
      [] w = "Gospel" -> "gospel"
      [] w = "Lord" -> "lord"
      [] w = "Praise" -> "praise"
      [] w = "Jesus" -> "jesus"
      [] w = "Christ" -> "christ"
      [] w = "Brothers" -> "brothers"
      [] w = "Let" -> "let"
      [] w = "We" -> "we"
      [] OTHER -> w

lower(text) == [i \in DOMAIN text |-> LowerWord(text[i])]

\* str.strip()
RECURSIVE strip(_)
strip(text) ==
    IF text = <<>> THEN text
    ELSE IF Head(text) = " " THEN strip(Tail(text))
    ELSE IF text[Len(text)] = " " THEN strip(SubSeq(text, 1, Len(text) - 1))
    ELSE text

\* needle in hay
Contains(hay, needle) ==
    \E i \in 1..(Len(hay) - Len(needle) + 1) :
        SubSeq(hay, i, i + Len(needle) - 1) = needle

\* " ".join(texts)
RECURSIVE Join(_)
Join(texts) ==
    IF texts = <<>> THEN <<>>
    ELSE IF Len(texts) = 1 THEN texts[1]
    ELSE texts[1] \o Sp \o Join(Tail(texts))

gospel_end_markers ==
    { Spaced(<<"the", "gospel", "of", "the", "lord">>),
      Spaced(<<"gospel", "of", "the", "lord">>),
      Spaced(<<"praise", "to", "you">>) }

end_markers ==
    { Spaced(<<"we", "pray", "to", "the", "lord">>),
      <<"lord", ",">> \o Sp \o Spaced(<<"hear", "our", "prayer">>),
      Spaced(<<"let", "us", "offer", "our", "prayers">>),
      Spaced(<<"prayers", "of", "petition">>),
      Spaced(<<"at", "the", "intercession">>),
      Spaced(<<"i", "believe", "in", "one", "god">>),
      Spaced(<<"prayer", "of", "the", "faithful">>),
      Spaced(<<"prayers", "of", "the", "faithful">>) }

\* any(marker in text for marker in markers)
AnyMarkerIn(markers, text) == \E marker \in markers : Contains(text, marker)

\* "The Gospel of the Lord."
GospelText == Spaced(<<"The", "Gospel", "of", "the", "Lord">>) \o <<".">>
\* "Praise to you, Lord Jesus Christ."
PraiseText ==
    Spaced(<<"Praise", "to", "you">>) \o <<",">> \o Sp
      \o Spaced(<<"Lord", "Jesus", "Christ">>) \o <<".">>
\* "Brothers and sisters"
PlainText == Spaced(<<"Brothers", "and", "sisters">>)
\* "Let us offer our prayers."
EndText == Spaced(<<"Let", "us", "offer", "our", "prayers">>) \o <<".">>

Texts == {GospelText, PraiseText, PlainText, EndText}

\* "Praise to you. We pray to the Lord.": both kinds of marker in one cue
BothText ==
    Spaced(<<"Praise", "to", "you">>) \o <<".">> \o Sp
      \o Spaced(<<"We", "pray", "to", "the", "Lord">>) \o <<".">>
\* "We pray" and "to the Lord.": an end marker over two cues
HeadText == Spaced(<<"We", "pray">>)
TailText == Spaced(<<"to", "the", "Lord">>) \o <<".">>

WindowTexts == {GospelText, PlainText, EndText, BothText, HeadText, TailText}

-----------------------------------------------------------------------------
(* Timestamps.  A timestamp text, and a separator line, is a sequence of   *)
(* characters, so that splitting, int() and the separator pattern act on   *)
(* what is written.                                                        *)

Digits == {"0", "1", "2", "3", "4", "5", "6", "7", "8", "9"}

DigitValue(c) ==
    CASE c = "0" -> 0 [] c = "1" -> 1 [] c = "2" -> 2 [] c = "3" -> 3
      [] c = "4" -> 4 [] c = "5" -> 5 [] c = "6" -> 6 [] c = "7" -> 7
      [] c = "8" -> 8 [] c = "9" -> 9

\* ch in text
HasChar(text, ch) == \E i \in DOMAIN text : text[i] = ch

\* text.split(ch)
RECURSIVE split(_, _)
split(text, ch) ==
    IF ~HasChar(text, ch) THEN <<text>>
    ELSE LET i == CHOOSE k \in DOMAIN text :
                     text[k] = ch /\ \A j \in 1..(k - 1) : text[j] # ch
         IN  <<SubSeq(text, 1, i - 1)>> \o split(SubSeq(text, i + 1, Len(text)), ch)

\* the value of a run of decimal digits
RECURSIVE NatOf(_)
NatOf(ds) ==
    IF ds = <<>> THEN 0
    ELSE NatOf(SubSeq(ds, 1, Len(ds) - 1)) * 10 + DigitValue(ds[Len(ds)])

\* int(text): an optional sign and decimal digits, ValueError otherwise
int(text) ==
    LET signed == text # <<>> /\ text[1] \in {"-", "+"}
        ds == IF signed THEN Tail(text) ELSE text
    IN  IF ds # <<>> /\ \A i \in DOMAIN ds : ds[i] \in Digits
        THEN [ok |-> TRUE,
              value |-> IF signed /\ text[1] = "-" THEN 0 - NatOf(ds) ELSE NatOf(ds)]
        ELSE [ok |-> FALSE, value |-> 0]

\* a ValueError raised by parse_timestamp
MalformedTimestamp == [ok |-> FALSE, value |-> 0]

\* parse_timestamp(ts): the seconds, times 1000, or the ValueError
parse_timestamp(ts) ==
    LET dotted == HasChar(ts, ".")
        parts == split(ts, ".")
        h_m_s == split(IF dotted THEN parts[1] ELSE ts, ":")
        ms == IF dotted THEN int(parts[2]) ELSE [ok |-> TRUE, value |-> 0]
        f == [i \in DOMAIN h_m_s |-> int(h_m_s[i])]
    IN  \* `time_part, ms = ts.split('.')` unpacks exactly two parts
        IF dotted /\ Len(parts) # 2 THEN MalformedTimestamp
        ELSE IF ~ms.ok THEN MalformedTimestamp
        ELSE IF Len(h_m_s) \notin {2, 3} THEN MalformedTimestamp
        ELSE IF \E i \in DOMAIN f : ~f[i].ok THEN MalformedTimestamp
        ELSE IF Len(h_m_s) = 3
        THEN [ok |-> TRUE,
              value |-> (f[1].value * 3600 + f[2].value * 60 + f[3].value) * 1000
                          + ms.value]
        ELSE [ok |-> TRUE,
              value |-> (f[1].value * 60 + f[2].value) * 1000 + ms.value]

\* the characters of "0:00", "0:08.000", "0:00:21.000", "3:20", "8.000"
\* and "0:0x"
TsZero == <<"0", ":", "0", "0">>
TsEight == <<"0", ":", "0", "8", ".", "0", "0", "0">>
TsTwentyOne == <<"0", ":", "0", "0", ":", "2", "1", ".", "0", "0", "0">>
TsLate == <<"3", ":", "2", "0">>
TsOneField == <<"8", ".", "0", "0", "0">>
TsNotNumeric == <<"0", ":", "0", "x">>

\* the characters of "0:20.000"
TsTwenty == <<"0", ":", "2", "0", ".", "0", "0", "0">>

\* colon-separated fields a timestamp text of the model may hold
MaxFields == 4

\* the fields "0", "1", "59", "-1" and "x"
FieldTexts == {<<"0">>, <<"1">>, <<"5", "9">>, <<"-", "1">>, <<"x">>}

\* what follows the fields: nothing, ".000", ".5", ".x" or ".5.0"
Fractions ==
    {<<>>, <<".", "0", "0", "0">>, <<".", "5">>, <<".", "x">>,
     <<".", "5", ".", "0">>}

\* ch.join(fields)
RECURSIVE JoinWith(_, _)
JoinWith(fields, ch) ==
    IF Len(fields) = 1 THEN fields[1]
    ELSE fields[1] \o <<ch>> \o JoinWith(Tail(fields), ch)

\* the texts parse_timestamp is applied to
TimestampTexts ==
    {JoinWith(fs, ":") \o fr :
        fs \in UNION {[1..n -> FieldTexts] : n \in 1..MaxFields},
        fr \in Fractions}

\* parse_timestamp applied to one text
ApplyParseTimestamp ==
    /\ tsIn # <<>>
    /\ tsOut = None
    /\ tsOut' = Some(parse_timestamp(tsIn))
    /\ UNCHANGED <<impl, now, storeVars, sweepVars, groupVars, parseVars,
                   detectVars, tsIn, s3Vars, monitorVars>>

-----------------------------------------------------------------------------
(* The cue parser: the first loop of extract_homily_from_vtt.              *)

\* lines a document of the model may hold
MaxLines == 4

\* `if invalid_ts_count > 5`
InvalidTsLimit == 5

\* the character at position i, "" past the end
CharAt(line, i) == IF i \in DOMAIN line THEN line[i] ELSE ""

\* the number of digits that follow each other from position i on
RECURSIVE DigitRun(_, _)
DigitRun(line, i) ==
    IF CharAt(line, i) \in Digits THEN 1 + DigitRun(line, i + 1) ELSE 0

\* \d+:\d{2}(?::\d{2})?\.\d{3} matched at position i: the position after
\* the match, 0 when there is no match
TimestampEnd(line, i) ==
    LET n == DigitRun(line, i)
        p == i + n
        q == p + 3
        r == IF CharAt(line, q) = ":" THEN q + 3 ELSE q
    IN  IF /\ n >= 1
           /\ CharAt(line, p) = ":"
           /\ DigitRun(line, p + 1) >= 2
           /\ (CharAt(line, q) = ":" => DigitRun(line, q + 1) >= 2)
           /\ CharAt(line, r) = "."
           /\ DigitRun(line, r + 1) >= 3
        THEN r + 4
        ELSE 0

\* re.match(r"(ts)\s-->\s(ts)", line): the two groups, or no match
NoMatch == [ok |-> FALSE, start_str |-> <<>>, end_str |-> <<>>]

match(line) ==
    LET e1 == TimestampEnd(line, 1)
        e2 == TimestampEnd(line, e1 + 5)
    IN  IF /\ e1 # 0
           /\ CharAt(line, e1) = " "
           /\ SubSeq(line, e1 + 1, e1 + 3) = <<"-", "-", ">">>
           /\ CharAt(line, e1 + 4) = " "
           /\ e2 # 0
        THEN [ok |-> TRUE, start_str |-> SubSeq(line, 1, e1 - 1),
              end_str |-> SubSeq(line, e1 + 5, e2 - 1)]
        ELSE NoMatch

\* a separator line: start --> end
SepLine(start_str, end_str) == start_str \o <<" ", "-", "-", ">", " ">> \o end_str

\* the lines of the model: "0:08.000 --> 0:20.000", a separator whose end
\* is before its start, a separator whose start is "0:0x", two text lines
\* and the blank line
LineTexts ==
    { SepLine(TsEight, TsTwenty), SepLine(TsTwenty, TsEight),
      SepLine(TsNotNumeric, TsEight), GospelText, PlainText, <<>> }

LineDocuments == UNION {[1..n -> LineTexts] : n \in 0..MaxLines}

\* the open cue, as the parser appends it
OpenCue ==
    [start |-> current_time[1][1], end |-> current_time[1][2],
     text |-> strip(current_text)]

\* `if current_time and current_text.strip(): entries.append(...)`
Finalized ==
    IF current_time # None /\ strip(current_text) # <<>>
    THEN Append(entries, OpenCue)
    ELSE entries

\* one iteration of `for line in lines`
ParseLine ==
    /\ dpc = "parsing"
    /\ ln <= Len(lines)
    /\ ln' = ln + 1
    /\ LET line == strip(lines[ln])
           m == match(line)
           start == parse_timestamp(m.start_str)
           end == parse_timestamp(m.end_str)
       IN  IF line = <<>>
           THEN UNCHANGED <<entries, current_time, current_text, invalid_ts_count>>
           ELSE IF Contains(line, <<"-", "-", ">">>)
           THEN /\ entries' = Finalized
                /\ IF m.ok /\ start.ok /\ end.ok
                   THEN /\ current_time' = Some(<<start.value, end.value>>)
                        /\ current_text' = <<>>
                        /\ UNCHANGED invalid_ts_count
                   ELSE IF m.ok
                   THEN /\ invalid_ts_count' = invalid_ts_count + 1
                        /\ UNCHANGED <<current_time, current_text>>
                   ELSE UNCHANGED <<current_time, current_text, invalid_ts_count>>
           ELSE IF current_time # None
           THEN /\ current_text' = current_text \o <<" ">> \o line
                /\ UNCHANGED <<entries, current_time, invalid_ts_count>>
           ELSE UNCHANGED <<entries, current_time, current_text, invalid_ts_count>>
    /\ UNCHANGED <<impl, now, storeVars, sweepVars, groupVars, lines, dpc,
                   homily_start, homily_end, gpt_calls, gpt_reply, alerts, trim,
                   undelivered, tsVars, s3Vars, monitorVars>>

\* the SMTP session of an alert raises and nothing catches it
send_email_alertUncaught(smtp_ok) == [delivered |-> smtp_ok, raised |-> ~smtp_ok]

\* send_email_alert, given whether the SMTP session succeeds: what raises
\* inside `with smtplib.SMTP(...)` is caught by `except Exception` and logged
send_email_alert(smtp_ok) == [delivered |-> smtp_ok, raised |-> FALSE]

\* after the loop: the alert on the count and the last open cue
ParseEnd ==
    /\ dpc = "parsing"
    /\ ln > Len(lines)
    /\ \E smtp_ok \in BOOLEAN :
         LET high == invalid_ts_count > InvalidTsLimit
             mail == send_email_alert(smtp_ok)
         IN  /\ alerts' = IF high THEN alerts \cup {"invalid_timestamps"} ELSE alerts
             /\ undelivered' = IF high /\ ~mail.delivered
                               THEN undelivered \cup {"invalid_timestamps"}
                               ELSE undelivered
             \* an exception leaving the alert leaves the pass before the
             \* last cue is appended
             /\ entries' = IF high /\ mail.raised THEN entries ELSE Finalized
             /\ dpc' = IF high /\ mail.raised THEN "raised" ELSE "parsed"
    /\ UNCHANGED <<impl, now, storeVars, sweepVars, groupVars, parseVars,
                   homily_start, homily_end, gpt_calls, gpt_reply, trim,
                   tsVars, s3Vars, monitorVars>>

-----------------------------------------------------------------------------
(* The boundary detector: extract_homily_from_vtt, from the parsed cues on. *)

\* cues a document of the model may hold
MaxCues == 3

\* capacity of recent_texts: deque(maxlen=10)
WindowCap == 10
\* duration < 60 or duration > 1200
MinDuration == 60
MaxDuration == 1200

\* cues of a document in chronological order
MaxWindowCues == 4

\* the (start, end) spans, in milliseconds, a cue of the model can carry
CueSpans == {<<0, 7000>>, <<8000, 20000>>, <<21000, 100000>>}

Cues == {[start |-> sp[1], end |-> sp[2], text |-> t] : sp \in CueSpans, t \in Texts}

Documents == UNION {[1..n -> Cues] : n \in 0..MaxCues}

\* The span of the i-th cue of a document in chronological order.  From
\* the second cue's start the third starts 60 s later and ends 1200 s
\* later, the second ends 59.9 s later, the fourth starts 1200.1 s later.
WindowSpan(i) ==
    CASE i = 1 -> <<0, 9000>>
      [] i = 2 -> <<10000, 69900>>
      [] i = 3 -> <<70000, 1210000>>
      [] i = 4 -> <<1210100, 1300000>>
      [] OTHER -> <<1300000 + i * 1000, 1300500 + i * 1000>>

WindowDocuments ==
    {[i \in DOMAIN txt |-> [start |-> WindowSpan(i)[1], end |-> WindowSpan(i)[2],
                            text |-> txt[i]]] :
        txt \in UNION {[1..n -> WindowTexts] : n \in 0..MaxWindowCues}}

\* the start_timestamp texts a reply can carry; the empty text is the
\* inferrer's "undetermined"
GptTimestamps ==
    {<<>>, TsZero, TsEight, TsTwentyOne, TsLate, TsOneField, TsNotNumeric}

\* what the fallback request can yield: a failure of the request, a reply
\* that is no JSON, or a JSON object with a start_timestamp
GptReplies ==
    {[kind |-> k, start_timestamp |-> <<>>] : k \in {"api_error", "bad_json"}}
      \cup {[kind |-> "json", start_timestamp |-> ts] : ts \in GptTimestamps}

\* a start_timestamp that is empty or does not parse counts as 0
GptTimeLenient(reply) ==
    IF reply.kind = "json"
    THEN IF reply.start_timestamp # <<>>
              /\ parse_timestamp(reply.start_timestamp).ok
         THEN Some(parse_timestamp(reply.start_timestamp).value)
         ELSE Some(0)
    ELSE None

\* gpt_time, when the try block gets as far as computing it: the request
\* succeeds, the reply is JSON, gpt_start is not empty and parses
GptTime(reply) ==
    IF reply.kind = "json" /\ reply.start_timestamp # <<>>
         /\ parse_timestamp(reply.start_timestamp).ok
    THEN Some(parse_timestamp(reply.start_timestamp).value)
    ELSE None

\* deque.append with maxlen: the oldest text is evicted
DequeAppend(dq, x) ==
    IF Len(dq) >= WindowCap THEN Append(Tail(dq), x) ELSE Append(dq, x)

\* `if homily_start:` -- None and 0.0 are both false
Truthy(opt) == opt # None /\ opt[1] # 0

\* the scan starts as if a gospel-end marker had been seen
ScanInitGospelSeen ==
    [found_gospel |-> TRUE, homily_start |-> None, homily_end |-> None,
     recent_texts |-> <<>>, stop |-> FALSE]

ScanInit ==
    [found_gospel |-> FALSE, homily_start |-> None, homily_end |-> None,
     recent_texts |-> <<>>, stop |-> FALSE]

\* the loop body without its `continue`: the marker cue falls through
ScanEntryNoContinue(st, entry) ==
    LET s0 == IF AnyMarkerIn(gospel_end_markers, lower(entry.text))
              THEN [st EXCEPT !.found_gospel = TRUE] ELSE st
        s1 == IF s0.found_gospel /\ s0.homily_start = None
                   /\ Len(strip(entry.text)) > 0
              THEN [s0 EXCEPT !.homily_start = Some(entry.start),
                              !.recent_texts = <<>>]
              ELSE s0
    IN  IF Truthy(s1.homily_start)
        THEN LET rt == DequeAppend(s1.recent_texts, entry.text)
             IN  IF AnyMarkerIn(end_markers, lower(Join(rt)))
                 THEN [s1 EXCEPT !.recent_texts = rt,
                                 !.homily_end = Some(entry.start),
                                 !.stop = TRUE]
                 ELSE [s1 EXCEPT !.recent_texts = rt]
        ELSE s1

\* one iteration of the heuristic loop `for entry in entries`
ScanEntry(st, entry) ==
    LET text == lower(entry.text)
    IN  IF AnyMarkerIn(gospel_end_markers, text)
        THEN [st EXCEPT !.found_gospel = TRUE]
        ELSE LET s1 == IF st.found_gospel /\ st.homily_start = None
                            /\ Len(strip(entry.text)) > 0
                       THEN [st EXCEPT !.homily_start = Some(entry.start),
                                       !.recent_texts = <<>>]
                       ELSE st
             IN  IF Truthy(s1.homily_start)
                 THEN LET rt == DequeAppend(s1.recent_texts, entry.text)
                          concat == lower(Join(rt))
                      IN  IF AnyMarkerIn(end_markers, concat)
                          THEN [s1 EXCEPT !.recent_texts = rt,
                                          !.homily_end = Some(entry.start),
                                          !.stop = TRUE]
                          ELSE [s1 EXCEPT !.recent_texts = rt]
                 ELSE s1

\* the heuristic loop, left at the `break`
RECURSIVE Scan(_, _, _)
Scan(es, i, st) ==
    IF i > Len(es) \/ st.stop THEN st
    ELSE Scan(es, i + 1, ScanEntry(st, es[i]))

Min(S) == CHOOSE x \in S : \A y \in S : x <= y

\* the candidate is resolved to the last cue whatever the cue starts are
FallbackStartLast(es, gpt_time) ==
    IF es # <<>> THEN Some(es[Len(es)].start) ELSE None

\* the candidate itself is the start, whatever cues there are
FallbackStartCandidate(es, gpt_time) == Some(gpt_time)

\* min((e['start'] for e in entries if e['start'] >= gpt_time),
\*     default=entries[-1]['start'] if entries else None)
FallbackStart(es, gpt_time) ==
    LET later == {es[i].start : i \in {j \in DOMAIN es : es[j].start >= gpt_time}}
    IN  IF later # {} THEN Some(Min(later))
        ELSE IF es # <<>> THEN Some(es[Len(es)].start)
        ELSE None

\* the second loop: the end marker searched from homily_start on
RECURSIVE EndSearch(_, _, _, _)
EndSearch(es, i, start, recent_texts) ==
    IF i > Len(es) THEN None
    ELSE IF es[i].start < start THEN EndSearch(es, i + 1, start, recent_texts)
    ELSE LET rt == DequeAppend(recent_texts, es[i].text)
         IN  IF AnyMarkerIn(end_markers, lower(Join(rt)))
             THEN Some(es[i].start)
             ELSE EndSearch(es, i + 1, start, rt)

\* The start the pass settles on, given the heuristic's result and the
\* fallback's reply should it be asked: None when the fallback fails,
\* answers nothing, or the document has no cue.
ResolveStart(es, scan, reply) ==
    IF scan.homily_start # None THEN scan.homily_start
    ELSE IF GptTime(reply) # None THEN FallbackStart(es, GptTime(reply)[1])
    ELSE None

\* the default of the second search is the start of the last cue
EndOfLastStart(es, scan, start) ==
    IF start # None /\ scan.homily_end = None
    THEN LET found == EndSearch(es, 1, start[1], <<>>)
         IN  IF found # None THEN found
             ELSE IF es = <<>> THEN None
             ELSE Some(es[Len(es)].start)
    ELSE scan.homily_end

\* the second search without its default: no marker, no end
EndOfNoDefault(es, scan, start) ==
    IF start # None /\ scan.homily_end = None
    THEN EndSearch(es, 1, start[1], <<>>)
    ELSE scan.homily_end

\* `if homily_start is not None and homily_end is None`: the second search,
\* and entries[-1]["end"] when it finds no marker.  With a start and no
\* cue the result is None: entries[-1] raises IndexError.
EndOf(es, scan, start) ==
    IF start # None /\ scan.homily_end = None
    THEN LET found == EndSearch(es, 1, start[1], <<>>)
         IN  IF found # None THEN found
             ELSE IF es = <<>> THEN None
             ELSE Some(es[Len(es)].end)
    ELSE scan.homily_end

\* the bounds themselves are flagged
SuspiciousInclusive(duration) ==
    duration <= MinDuration * 1000 \/ duration >= MaxDuration * 1000

\* `duration < 60 or duration > 1200`, the duration in milliseconds
Suspicious(duration) ==
    duration < MinDuration * 1000 \/ duration > MaxDuration * 1000

\* The pass over the parsed cues, given the fallback's reply should it be
\* asked, whether ffmpeg succeeds and whether the SMTP sessions of the
\* pass succeed.
Detect(reply) ==
    /\ dpc = "parsed"
    /\ \E scan \in {Scan(entries, 1, ScanInit)} :
       \E start \in {ResolveStart(entries, scan, reply)} :
       \E end \in {EndOf(entries, scan, start)} :
       \E ffmpeg_ok \in BOOLEAN, smtp_ok \in BOOLEAN :
         LET need_gpt == scan.homily_start = None
             \* entries[-1]["end"] of an empty list
             index_error == start # None /\ end = None
             \* the except clauses of the fallback alert and return
             gpt_alert == IF ~need_gpt \/ GptTime(reply) # None THEN {}
                          ELSE IF reply.kind = "bad_json" THEN {"gpt_invalid_json"}
                          ELSE {"gpt_failed"}
             \* an exception leaving send_email_alert leaves the pass there
             mail == send_email_alert(smtp_ok)
         IN  /\ gpt_calls' = IF need_gpt THEN gpt_calls + 1 ELSE gpt_calls
             /\ gpt_reply' = IF need_gpt THEN Some(reply) ELSE None
             /\ homily_start' = start
             /\ homily_end' = end
             /\ IF gpt_alert # {}
                THEN /\ alerts' = alerts \cup gpt_alert
                     /\ trim' = None
                     /\ dpc' = IF mail.raised THEN "raised" ELSE "done"
                ELSE IF start = None
                THEN /\ alerts' = alerts \cup {"start_not_found"}
                     /\ trim' = None
                     /\ dpc' = IF mail.raised THEN "raised" ELSE "done"
                ELSE IF index_error
                THEN alerts' = alerts /\ trim' = None /\ dpc' = "raised"
                ELSE IF Suspicious(end[1] - start[1]) /\ mail.raised
                THEN /\ alerts' = alerts \cup {"suspicious_duration"}
                     /\ trim' = None
                     /\ dpc' = "raised"
                ELSE /\ alerts' =
                          alerts
                            \cup (IF Suspicious(end[1] - start[1])
                                  THEN {"suspicious_duration"} ELSE {})
                            \cup (IF ffmpeg_ok THEN {} ELSE {"ffmpeg_error"})
                     /\ trim' = Some(<<start[1], end[1]>>)
                     /\ dpc' = IF ~ffmpeg_ok /\ mail.raised THEN "raised" ELSE "done"
             /\ undelivered' = IF mail.delivered THEN undelivered
                               ELSE undelivered \cup (alerts' \ alerts)
    /\ UNCHANGED <<impl, now, storeVars, sweepVars, groupVars, parseVars, entries,
                   tsVars, s3Vars, monitorVars>>

-----------------------------------------------------------------------------
(* The rate-limited alerts of s3_utils and the calls main() makes of       *)
(* list_s3_files and download_file.  Instants and delays are in minutes.   *)

\* list_s3_files calls of a run of the model
MaxS3Polls == 6

\* files a listing holds that are recent and not yet on the local disk
MaxS3Files == 2

\* timedelta(minutes=0), (minutes=5), (minutes=30), (hours=1)
S3_ALERT_DELAYS == <<0, 5, 30, 60>>

\* timedelta(days=1)
S3_ALERT_DAILY_DELAY == 1440

\* the wait is the delay of the stage reached, not of the one after it
advance_s3_alert_stateOwnDelay(state, t) ==
    LET current_stage == IF state # None THEN state[1].stage ELSE 0 - 1
        next_stage == Min({current_stage + 1, Len(S3_ALERT_DELAYS) - 1})
    IN  Some([stage |-> next_stage,
              next_allowed |-> t + S3_ALERT_DELAYS[next_stage + 1]])

\* _advance_s3_alert_state(now): the state it stores.  S3_ALERT_DELAYS is
\* indexed from 0 in the code and from 1 here.
advance_s3_alert_state(state, t) ==
    LET current_stage == IF state # None THEN state[1].stage ELSE 0 - 1
        next_stage == Min({current_stage + 1, Len(S3_ALERT_DELAYS) - 1})
        wait_time == IF next_stage + 1 < Len(S3_ALERT_DELAYS)
                     THEN S3_ALERT_DELAYS[next_stage + 2]
                     ELSE S3_ALERT_DAILY_DELAY
    IN  Some([stage |-> next_stage, next_allowed |-> t + wait_time])

\* _should_send_s3_alert(now), its test
should_send_s3_alert(state, t) == state = None \/ t >= state[1].next_allowed

\* reset_s3_alert(): S3_ALERT_STATE.pop(S3_ALERT_KEY, None)
reset_s3_alert ==
    /\ S3_ALERT_STATE' = None
    /\ s3_mails' = [s3_mails EXCEPT !.streak = 0]

\* send_rate_limited_s3_alert(subject, message)
send_rate_limited_s3_alert ==
    IF should_send_s3_alert(S3_ALERT_STATE, s3_clock)
    THEN /\ S3_ALERT_STATE' = advance_s3_alert_state(S3_ALERT_STATE, s3_clock)
         /\ s3_mails' = [s3_mails EXCEPT !.sent = @ + 1, !.streak = @ + 1,
                                         !.last = s3_clock]
    ELSE /\ S3_ALERT_STATE' = S3_ALERT_STATE
         /\ s3_mails' = [s3_mails EXCEPT !.withheld = @ + 1]

\* s3_files = list_s3_files(): the listing fails, alerts and is empty, or
\* succeeds, resets the alert state and holds n files to download
list_s3_files(ok, n) ==
    /\ s3_todo = None
    /\ s3_polls < MaxS3Polls
    /\ s3_polls' = s3_polls + 1
    /\ IF ok
       THEN reset_s3_alert /\ s3_todo' = Some(n)
       ELSE send_rate_limited_s3_alert /\ s3_todo' = Some(0)
    /\ UNCHANGED <<impl, now, storeVars, sweepVars, groupVars, parseVars,
                   detectVars, tsVars, s3_clock, s3_downloaded, monitorVars>>

\* download_file(s3_key, local_path) for the next file of the listing
download_file(ok) ==
    /\ s3_todo # None
    /\ s3_todo[1] > 0
    /\ s3_todo' = Some(s3_todo[1] - 1)
    /\ IF ok THEN reset_s3_alert ELSE send_rate_limited_s3_alert
    /\ s3_downloaded' = (s3_downloaded \/ ok)
    /\ UNCHANGED <<impl, now, storeVars, sweepVars, groupVars, parseVars,
                   detectVars, tsVars, s3_clock, s3_polls, monitorVars>>

\* The minutes an iteration takes, time.sleep(60) included: one, or what
\* brings the clock to next_allowed or to the minute before it.
S3Elapsed ==
    {1} \cup (IF S3_ALERT_STATE = None THEN {}
              ELSE {d \in {S3_ALERT_STATE[1].next_allowed - s3_clock - 1,
                           S3_ALERT_STATE[1].next_allowed - s3_clock} : d > 0})

\* the end of the iteration: the files are done, time.sleep(60)
S3Sleep(d) ==
    /\ s3_todo = Some(0)
    /\ s3_todo' = None
    /\ s3_clock' = s3_clock + d
    /\ UNCHANGED <<impl, now, storeVars, sweepVars, groupVars, parseVars,
                   detectVars, tsVars, S3_ALERT_STATE, s3_mails, s3_polls,
                   s3_downloaded, monitorVars>>

-----------------------------------------------------------------------------
(* The specifications.                                                     *)

\* the store empty and no sweep running
StoreIdle ==
    /\ impl = "helpers"
    /\ now = At(DateAt(0), 10, 0)
    /\ homilies = <<>>
    /\ compared_groups = <<>>
    /\ pc = "idle"
    /\ sweepNow = NoDateTime
    /\ groups = <<>>
    /\ sweepResult = "none"
    /\ calls = [k \in KeyTexts |-> 0]
    /\ emails = [k \in KeyTexts |-> 0]
    /\ lastEval = [key |-> <<>>, outcome |-> "none"]

GroupIdle == gkIn = NoDateTime /\ gkOut = <<>>

ParseIdle ==
    /\ lines = <<>>
    /\ ln = 1
    /\ current_time = None
    /\ current_text = <<>>
    /\ invalid_ts_count = 0

DetectIdle ==
    /\ ParseIdle
    /\ entries = <<>>
    /\ dpc = "none"
    /\ homily_start = None
    /\ homily_end = None
    /\ gpt_calls = 0
    /\ gpt_reply = None
    /\ alerts = {}
    /\ trim = None
    /\ undelivered = {}

TsIdle == tsIn = <<>> /\ tsOut = None

\* no alert of s3_utils sent or withheld yet
NoMails == [sent |-> 0, withheld |-> 0, streak |-> 0, last |-> 0]

S3Idle ==
    /\ S3_ALERT_STATE = None
    /\ s3_clock = 0
    /\ s3_mails = NoMails
    /\ s3_todo = None
    /\ s3_polls = 0
    /\ s3_downloaded = FALSE

MonitorIdle == loop = "off"

\* the store and the sweep
Init ==
    /\ impl \in {"helpers", "homilyDownload"}
    /\ now = At(DateAt(0), 10, 0)
    /\ homilies = <<>>
    /\ compared_groups = <<>>
    /\ pc = "idle"
    /\ sweepNow = NoDateTime
    /\ groups = <<>>
    /\ sweepResult = "none"
    /\ calls = [k \in KeyTexts |-> 0]
    /\ emails = [k \in KeyTexts |-> 0]
    /\ lastEval = [key |-> <<>>, outcome |-> "none"]
    /\ GroupIdle
    /\ DetectIdle
    /\ TsIdle
    /\ S3Idle
    /\ MonitorIdle

Next ==
    \/ \E fn \in Files, last_mod \in RecordingTimes, result \in AnalysisResults :
          AnalyzeTranscript(fn, last_mod, result)
    \/ \E gk \in BadKeys, fn \in Files : ForeignInsert(gk, fn)
    \/ \E t \in ClockPoints : Tick(t)
    \/ SweepStart
    \/ \E resp \in Responses : SweepKey(resp)

Spec == Init /\ [][Next]_vars

\* the store and the sweep, with two recordings
NextRecordings ==
    \/ \E fn \in Recordings, last_mod \in RecordingTimes, result \in AnalysisResults :
          AnalyzeTranscript(fn, last_mod, result)
    \/ \E gk \in BadKeys, fn \in Recordings : ForeignInsert(gk, fn)
    \/ \E t \in ClockPoints : Tick(t)
    \/ SweepStart
    \/ \E resp \in Responses : SweepKey(resp)

SpecRecordings == Init /\ [][NextRecordings]_vars

\* the grouping rule applied to one recording instant
InitGroupKey ==
    /\ StoreIdle
    /\ gkIn \in GroupInputs
    /\ gkOut = <<>>
    /\ DetectIdle
    /\ TsIdle
    /\ S3Idle
    /\ MonitorIdle

NextGroupKey == ApplyGroupKey

SpecGroupKey == InitGroupKey /\ [][NextGroupKey]_vars

\* one detection pass over one document
InitDetect ==
    /\ StoreIdle
    /\ GroupIdle
    /\ ParseIdle
    /\ entries \in Documents
    /\ dpc = "parsed"
    /\ homily_start = None
    /\ homily_end = None
    /\ gpt_calls = 0
    /\ gpt_reply = None
    /\ alerts = {}
    /\ trim = None
    /\ undelivered = {}
    /\ TsIdle
    /\ S3Idle
    /\ MonitorIdle

NextDetect == \E reply \in GptReplies : Detect(reply)

SpecDetect == InitDetect /\ [][NextDetect]_vars

\* one detection pass over one document in chronological order
InitWindow ==
    /\ StoreIdle
    /\ GroupIdle
    /\ ParseIdle
    /\ entries \in WindowDocuments
    /\ dpc = "parsed"
    /\ homily_start = None
    /\ homily_end = None
    /\ gpt_calls = 0
    /\ gpt_reply = None
    /\ alerts = {}
    /\ trim = None
    /\ undelivered = {}
    /\ TsIdle
    /\ S3Idle
    /\ MonitorIdle

NextWindow == \E reply \in GptReplies : Detect(reply)

SpecWindow == InitWindow /\ [][NextWindow]_vars

\* one pass of extract_homily_from_vtt over the lines of one document
InitParse ==
    /\ StoreIdle
    /\ GroupIdle
    /\ lines \in LineDocuments
    /\ ln = 1
    /\ current_time = None
    /\ current_text = <<>>
    /\ invalid_ts_count = 0
    /\ entries = <<>>
    /\ dpc = "parsing"
    /\ homily_start = None
    /\ homily_end = None
    /\ gpt_calls = 0
    /\ gpt_reply = None
    /\ alerts = {}
    /\ trim = None
    /\ undelivered = {}
    /\ TsIdle
    /\ S3Idle
    /\ MonitorIdle

NextParse ==
    \/ ParseLine
    \/ ParseEnd
    \/ \E reply \in GptReplies : Detect(reply)

SpecParse == InitParse /\ [][NextParse]_vars

\* the monitor, started with an empty store
InitMonitor ==
    /\ impl \in {"helpers", "homilyDownload"}
    /\ now = At(DateAt(0), 10, 0)
    /\ homilies = <<>>
    /\ compared_groups = <<>>
    /\ pc = "idle"
    /\ sweepNow = NoDateTime
    /\ groups = <<>>
    /\ sweepResult = "none"
    /\ calls = [k \in KeyTexts |-> 0]
    /\ emails = [k \in KeyTexts |-> 0]
    /\ lastEval = [key |-> <<>>, outcome |-> "none"]
    /\ GroupIdle
    /\ DetectIdle
    /\ TsIdle
    /\ S3Idle
    /\ loop = "poll"

NextMonitor ==
    \/ MonitorPoll
    \/ loop = "sweep" /\ sweepResult = "none" /\ SweepStart
    \/ loop = "sweep" /\ \E resp \in Responses : SweepKey(resp)
    \/ MonitorSweepDone
    \/ \E t \in ClockPoints : MonitorSleep(t)

\* `while True`: the loop takes its next step as long as it has one
SpecMonitor == InitMonitor /\ [][NextMonitor]_vars /\ WF_vars(NextMonitor)

\* the S3 calls of the monitor, from its start
InitS3 ==
    /\ StoreIdle
    /\ GroupIdle
    /\ DetectIdle
    /\ TsIdle
    /\ S3Idle
    /\ MonitorIdle

NextS3 ==
    \/ \E ok \in BOOLEAN, n \in 0..MaxS3Files : list_s3_files(ok, n)
    \/ \E ok \in BOOLEAN : download_file(ok)
    \/ \E d \in S3Elapsed : S3Sleep(d)

SpecS3 == InitS3 /\ [][NextS3]_vars

\* parse_timestamp applied to one timestamp text
InitTimestamp ==
    /\ StoreIdle
    /\ GroupIdle
    /\ DetectIdle
    /\ tsIn \in TimestampTexts
    /\ tsOut = None
    /\ S3Idle
    /\ MonitorIdle

NextTimestamp == ApplyParseTimestamp

SpecTimestamp == InitTimestamp /\ [][NextTimestamp]_vars

-----------------------------------------------------------------------------
(* Claims about the sweep.                                                 *)

\* the sweep is about to visit key k
Visiting(k) == pc = "sweep" /\ groups # <<>> /\ Head(groups) = k

\* the key is the text of a calendar date of the model's window
IsDateKey(k) == k \in KeyTexts \ BadKeys

\* t is later than 21:00 of the key's date
AfterNinePM(t, k) == DtLess(At(k, 21, 0), t)

\* t is earlier than 21:00 of the key's date
BeforeNinePM(t, k) == DtLess(t, At(k, 21, 0))

\* an unmarked key past its deadline
DueUnmarked(k) ==
    IsDateKey(k) /\ AfterNinePM(sweepNow, k) /\ ~Marked(compared_groups, k)

NoDuplicateMark(table) ==
    \A i, j \in DOMAIN table : table[i] = table[j] => i = j

\* C1: over any sequence of sweeps and classifier replies, the classifier
\* is asked at most once for each group key.
C1_AtMostOneComparisonPerKey == \A k \in KeyTexts : calls[k] <= 1

\* C2: for a key past its deadline, unmarked and with two or more rows, the
\* sweep asks the classifier exactly once and, whatever the reply (similar,
\* deviations, or a failure the sweep handles and survives), the key has its
\* ComparisonRecord when the sweep is done with it.
C2_DueKeyComparedAndMarked ==
    [][\A k \in KeyTexts :
         (Visiting(k) /\ DueUnmarked(k) /\ CountRows(k) >= 2
            /\ sweepResult' # "raised")
           => /\ calls'[k] = calls[k] + 1
              /\ Marked(compared_groups', k)]_vars

\* C3: a sweep leaves at most one ComparisonRecord per key, and visiting a
\* key that an earlier sweep marked asks the classifier nothing and writes
\* nothing.
C3_SecondSweepIsNoOp ==
    [][/\ NoDuplicateMark(compared_groups')
       /\ \A k \in KeyTexts :
            (Visiting(k) /\ Marked(compared_groups, k))
              => /\ calls' = calls
                 /\ emails' = emails
                 /\ compared_groups' = compared_groups
                 /\ sweepResult' # "raised"]_vars

\* a later sweep has visited a key that an earlier sweep compared and marked
C3_Witness ==
    /\ lastEval.outcome = "already_compared"
    /\ Marked(compared_groups, lastEval.key)
    /\ CountRows(lastEval.key) >= 2
    /\ calls[lastEval.key] = 1

\* C4: whenever the classifier answers "deviations" for a key, the sweep
\* sends the deviation notification for that key.
C4_DeviationsNotified ==
    lastEval.outcome = "deviations" => emails[lastEval.key] >= 1

\* C5: a failure while one key is evaluated never keeps the remaining keys
\* of that sweep from being evaluated: a sweep that has ended has visited
\* every key of its list.
C5_SweepVisitsEveryKey == pc = "idle" => groups = <<>>

\* C6: a key that is no date is skipped: no classifier request, no
\* ComparisonRecord, the sweep goes on, and every later sweep lists it again.
C6_InvalidKeySkipped ==
    [][/\ \A k \in BadKeys :
            Visiting(k)
              => /\ calls' = calls
                 /\ emails' = emails
                 /\ compared_groups' = compared_groups
                 /\ groups' = Tail(groups)
                 /\ sweepResult' # "raised"
       /\ \A k \in BadKeys :
            (pc = "idle" /\ pc' = "sweep" /\ CountRows(k) >= 1)
              => /\ ~Marked(compared_groups', k)
                 /\ \E i \in DOMAIN groups' : groups'[i] = k]_vars

\* the sweep has visited a key that is no date and goes on with the next
C6_Witness ==
    /\ lastEval.key \in BadKeys
    /\ lastEval.outcome = "invalid_key"
    /\ pc = "sweep"
    /\ groups # <<>>

\* C7: a key past its deadline, unmarked and with fewer than two rows is
\* marked compared with no classifier request and no notification.
C7_SingleRowKeyMarkedWithoutCall ==
    [][\A k \in KeyTexts :
         (Visiting(k) /\ DueUnmarked(k) /\ CountRows(k) < 2)
           => /\ Marked(compared_groups', k)
              /\ calls' = calls
              /\ emails' = emails]_vars

\* the sweep has marked a due key that has one row
C7_Witness ==
    /\ lastEval.outcome = "too_few"
    /\ CountRows(lastEval.key) = 1
    /\ Marked(compared_groups, lastEval.key)
    /\ calls[lastEval.key] = 0

\* C8: in a sweep run before 21:00 of a key's date, the key is neither
\* submitted to the classifier nor marked, whatever rows it has.
C8_NotDueKeyUntouched ==
    [][\A k \in KeyTexts :
         (Visiting(k) /\ IsDateKey(k) /\ BeforeNinePM(sweepNow, k))
           => /\ calls' = calls
              /\ emails' = emails
              /\ compared_groups' = compared_groups]_vars

\* the sweep has visited, on the key's own date and before 21:00, a key
\* that has two rows
C8_Witness ==
    /\ lastEval.outcome = "not_due"
    /\ CountRows(lastEval.key) >= 2
    /\ now.date = lastEval.key
    /\ ~Marked(compared_groups, lastEval.key)

-----------------------------------------------------------------------------
(* Claim about the grouping rule.                                          *)

\* C9: the group key is the recording's own date for every weekday and
\* hour, except that a Saturday recording with hour >= 15 gets the next
\* day's date; the key is a date text of three fields, with no time in it.
C9_GroupKeyRule ==
    gkOut # <<>> =>
      \E m \in Mondays, n \in 0..MaxGroupDay :
        /\ gkIn.date = DateFrom(m, n)
        /\ Len(gkOut) = 3
        /\ gkOut = IF n % 7 = 5 /\ gkIn.hour >= 15
                   THEN DateFrom(m, n + 1)
                   ELSE DateFrom(m, n)

\* a Saturday vigil recording at a month's end, or at a year's end
C9_Witness ==
    \/ gkIn = At(<<2025, 5, 31>>, 15, 0) /\ gkOut = <<2025, 6, 1>>
    \/ gkIn = At(<<2022, 12, 31>>, 23, 0) /\ gkOut = <<2023, 1, 1>>

-----------------------------------------------------------------------------
(* Claims about the boundary detector.                                     *)

\* the cue's text is one of those that hold a gospel-end marker
IsGospelCue(e) == AnyMarkerIn(gospel_end_markers, lower(e.text))

\* the index of the first cue with a gospel-end marker, 0 when there is none
FirstGospel(es) ==
    IF \E i \in DOMAIN es : IsGospelCue(es[i])
    THEN Min({i \in DOMAIN es : IsGospelCue(es[i])})
    ELSE 0

\* the indexes after g of the cues without a gospel-end marker
PlainAfter(es, g) == {j \in DOMAIN es : j > g /\ ~IsGospelCue(es[j])}

\* the pass ended with the start found by the heuristic scan
HeuristicPath == dpc = "done" /\ gpt_calls = 0 /\ homily_start # None

\* C10, as stated: on the heuristic path, with g the first cue that holds a
\* gospel-end marker and a cue after g, homily_start is the start of the
\* cue right after g.
C10_StartIsCueAfterGospel ==
    (HeuristicPath /\ FirstGospel(entries) > 0
       /\ FirstGospel(entries) < Len(entries))
      => homily_start = Some(entries[FirstGospel(entries) + 1].start)

\* C10, amended: with g the first cue that holds a gospel-end marker, and
\* some cue after g that holds none, the heuristic sets homily_start to the
\* start of the first such cue; neither g nor any other marker cue is the
\* start cue, and the fallback is not asked.
C10_StartIsFirstPlainCueAfterGospel ==
    (dpc = "done" /\ FirstGospel(entries) > 0
       /\ PlainAfter(entries, FirstGospel(entries)) # {})
      => /\ gpt_calls = 0
         /\ homily_start =
              Some(entries[Min(PlainAfter(entries, FirstGospel(entries)))].start)

\* gospel cue, acclamation cue, then the homily's first cue
C10_Witness ==
    /\ HeuristicPath
    /\ Len(entries) = 3
    /\ entries[1].text = GospelText /\ entries[1].start = 0
    /\ entries[2].text = PraiseText /\ entries[2].start = 8000
    /\ entries[3].text = PlainText /\ entries[3].start = 21000
    /\ homily_start = Some(21000)

-----------------------------------------------------------------------------
(* Claims about the end of the window and about the fallback.              *)

\* the cue the start was taken from: the heuristic's cue, or the first cue
\* that carries the resolved start
StartCue ==
    IF gpt_calls = 0
    THEN Min(PlainAfter(entries, FirstGospel(entries)))
    ELSE Min({i \in DOMAIN entries : entries[i].start = homily_start[1]})

\* the lower-cased, space-joined text of the last up-to-10 cues of s..j
WindowText(es, s, j) ==
    LET first == IF j - s + 1 > WindowCap THEN j - WindowCap + 1 ELSE s
    IN  lower(Join([k \in 1..(j - first + 1) |-> es[first + k - 1].text]))

\* an end-marker phrase is in the window of cue j, scanning from cue s
MarkerAt(es, s, j) == AnyMarkerIn(end_markers, WindowText(es, s, j))

\* no end-marker phrase is matched from cue s to the end of the sequence
NoMarkerFrom(es, s) == \A j \in s..Len(es) : ~MarkerAt(es, s, j)

\* the pass produced a start
StartFound == dpc = "done" /\ homily_start # None

TrailingText(seq, j) ==
    LET first == IF j > WindowCap THEN j - WindowCap + 1 ELSE 1
    IN  lower(Join([k \in 1..(j - first + 1) |-> seq[first + k - 1].text]))

\* scanning seq in order, some cue's trailing window holds an end marker
WindowMatch(seq) ==
    \E j \in DOMAIN seq : AnyMarkerIn(end_markers, TrailingText(seq, j))

NoGospelMarker(e) == ~IsGospelCue(e)

AtOrAfterStart(e) == e.start >= homily_start[1]

\* what the heuristic scan appends to its window: the cues from the start
\* cue on that hold no gospel-end marker
HeuristicScanned ==
    IF gpt_calls = 0
    THEN SelectSeq(SubSeq(entries, StartCue, Len(entries)), NoGospelMarker)
    ELSE <<>>

\* what the second search appends to its window: the cues whose start time
\* is at or after homily_start, in sequence order
Searched == SelectSeq(entries, AtOrAfterStart)

HeuristicFindsStart(es) ==
    FirstGospel(es) > 0 /\ PlainAfter(es, FirstGospel(es)) # {}

\* C13: the fallback is asked in a pass if and only if the heuristic scan
\* ends without a start, and then exactly once; it is not asked when the
\* heuristic has set a start.
C13_FallbackIffHeuristicFails ==
    dpc = "done" =>
      IF HeuristicFindsStart(entries)
      THEN gpt_calls = 0 /\ gpt_reply = None
      ELSE gpt_calls = 1 /\ gpt_reply # None

\* a gospel cue followed by the acclamation only: no start, one request
C13_Witness ==
    /\ dpc = "done"
    /\ Len(entries) = 2
    /\ entries[1].text = GospelText
    /\ entries[2].text = PraiseText
    /\ gpt_calls = 1

\* the fallback answered with a start_timestamp that parses
FallbackGaveTime ==
    /\ dpc = "done"
    /\ gpt_reply # None
    /\ gpt_reply[1].kind = "json"
    /\ gpt_reply[1].start_timestamp # <<>>
    /\ parse_timestamp(gpt_reply[1].start_timestamp).ok

\* the candidate time of the fallback's answer
Candidate == parse_timestamp(gpt_reply[1].start_timestamp).value

\* C14: with a parseable candidate time c from the fallback and at least
\* one cue, homily_start is the smallest cue start that is >= c, and the
\* start of the last cue if no cue start is >= c.
C14_FallbackStartResolved ==
    (FallbackGaveTime /\ entries # <<>>) =>
      LET later == {i \in DOMAIN entries : entries[i].start >= Candidate}
      IN  IF later # {}
          THEN \E i \in later :
                  /\ homily_start = Some(entries[i].start)
                  /\ \A j \in later : entries[i].start <= entries[j].start
          ELSE homily_start = Some(entries[Len(entries)].start)

\* the candidate is 0:08.000, the cues start at 21 s and at 0 s, in this
\* order: the start is 21 s, not the last cue's
C14_Witness ==
    /\ FallbackGaveTime
    /\ gpt_reply[1].start_timestamp = TsEight
    /\ Len(entries) = 2
    /\ entries[1].start = 21000
    /\ entries[2].start = 0
    /\ homily_start = Some(21000)

\* the fallback's answer is empty, is no JSON, or holds a timestamp that
\* does not parse
FallbackGaveNothing ==
    /\ dpc = "done"
    /\ gpt_reply # None
    /\ \/ gpt_reply[1].kind = "bad_json"
       \/ /\ gpt_reply[1].kind = "json"
          /\ \/ gpt_reply[1].start_timestamp = <<>>
             \/ ~parse_timestamp(gpt_reply[1].start_timestamp).ok

\* C15: when the heuristic finds no start and the fallback's answer is
\* empty, is no JSON or does not parse, an alert is sent, there is no
\* window and the trim is not run.
C15_FallbackFailureIsBoundaryNotFound ==
    FallbackGaveNothing =>
      /\ alerts \cap {"gpt_invalid_json", "gpt_failed"} # {}
      /\ homily_start = None
      /\ homily_end = None
      /\ trim = None

\* cues without a gospel marker and the answer "0:0x"
C15_Witness ==
    /\ FallbackGaveNothing
    /\ entries # <<>>
    /\ gpt_reply[1].start_timestamp = TsNotNumeric
    /\ alerts = {"gpt_failed"}
    /\ trim = None

-----------------------------------------------------------------------------
(* Claims about the end marker and the validator.                          *)

\* the cues from the start cue on at which the trailing window, every cue
\* included, holds an end-marker phrase
Qualifying(es, s) == {j \in s..Len(es) : MarkerAt(es, s, j)}

\* C11: when an end marker is found, homily_end is the start of the
\* earliest cue j, scanning from the start cue on, at which the joined,
\* lower-cased text of the last up-to-10 cues, every cue included, holds
\* an end-marker phrase; no later qualifying cue is chosen.
C11_EarliestEndMarkerWins ==
    (StartFound /\ Qualifying(entries, StartCue) # {})
      => homily_end = Some(entries[Min(Qualifying(entries, StartCue))].start)

\* C16: a window is flagged exactly when end - start < 60 s or
\* end - start > 1200 s, a window of exactly 60 s or 1200 s is not flagged,
\* and the trim is run on the window whether it is flagged or not.
C16_SuspiciousExactlyOutsideBounds ==
    StartFound =>
      /\ "suspicious_duration" \in alerts
           <=> \/ homily_end[1] - homily_start[1] < 60000
               \/ homily_end[1] - homily_start[1] > 1200000
      /\ trim = Some(<<homily_start[1], homily_end[1]>>)

\* a window of 59.9 s: flagged, and cut all the same
C16_Witness ==
    /\ StartFound
    /\ homily_end[1] - homily_start[1] = 59900
    /\ "suspicious_duration" \in alerts
    /\ trim = Some(<<10000, 69900>>)

-----------------------------------------------------------------------------
(* Claims about the cue parser.                                            *)

\* the parser is about to read a line
Reading == dpc = "parsing" /\ ln <= Len(lines)

\* the line read next holds "-->"
AtSeparator == Reading /\ Contains(strip(lines[ln]), <<"-", "-", ">">>)

\* both sides of the line read next are timestamps parse_timestamp accepts
ValidTimes ==
    LET sides == split(strip(lines[ln]), " ")
    IN  /\ Len(sides) = 3
        /\ parse_timestamp(sides[1]).ok
        /\ parse_timestamp(sides[3]).ok

\* the line read next is a separator line whose timestamps are not valid
AtInvalidSeparator == AtSeparator /\ ~ValidTimes

\* C17: a separator line whose timestamps are not valid opens no cue and
\* does not append the open cue to the output; the open cue and its text
\* stay as they were.
C17_InvalidSeparatorLeavesCuesAlone ==
    [][(AtInvalidSeparator /\ ln' = ln + 1)
         => /\ entries' = entries
            /\ current_time' = current_time
            /\ current_text' = current_text]_vars

\* C18: every separator line whose timestamps fail to parse adds one to
\* the invalid-timestamp count.
C18_InvalidSeparatorCounted ==
    [][(AtInvalidSeparator /\ ln' = ln + 1)
         => invalid_ts_count' = invalid_ts_count + 1]_vars

\* C19: every cue of the parser's output has start <= end and a trimmed,
\* non-empty text.
C19_CuesWellFormed ==
    \A i \in DOMAIN entries :
        /\ entries[i].start <= entries[i].end
        /\ entries[i].text # <<>>
        /\ strip(entries[i].text) = entries[i].text

\* the pass is over, by a return or by an exception
PassOver == dpc \in {"done", "raised"}

\* C20: for a document that yields no cue the pass raises no exception and
\* ends as boundary-not-found, with an alert, without a window and without
\* the trim, whatever the fallback answers.
C20_NoCuesIsBoundaryNotFound ==
    (PassOver /\ entries = <<>>)
      => /\ dpc = "done"
         /\ gpt_calls = 1
         /\ alerts \cap {"start_not_found", "gpt_invalid_json", "gpt_failed"} # {}
         /\ homily_start = None
         /\ homily_end = None
         /\ trim = None

\* lines that yield no cue, and the fallback answers "0:08.000"
C20_Witness ==
    /\ dpc = "done"
    /\ lines # <<>>
    /\ entries = <<>>
    /\ gpt_reply # None
    /\ gpt_reply[1].start_timestamp = TsEight
    /\ alerts = {"start_not_found"}
    /\ trim = None

-----------------------------------------------------------------------------
(* Claim about the duration of the window.                                 *)

\* start <= end for each cue, starts non-decreasing in sequence order
CueInvariants ==
    /\ \A i \in DOMAIN entries : entries[i].start <= entries[i].end
    /\ \A i, j \in DOMAIN entries : i < j => entries[i].start <= entries[j].start

\* C23: for cues with start <= end and non-decreasing starts, a window the
\* detector produces has end > start, on the heuristic path and on the
\* fallback path.
C23_WindowDurationPositive ==
    (CueInvariants /\ homily_start # None /\ homily_end # None)
      => homily_end[1] > homily_start[1]

-----------------------------------------------------------------------------
(* Claims about the ComparisonRecords and the rows of a key.               *)

\* C29: a key that is marked compared stays marked in every later state
\* and is never submitted to the classifier again, whatever rows are
\* inserted for it afterwards, also when it was marked with fewer than two
\* rows.
C29_ComparedKeyStaysCompared ==
    [][\A k \in KeyTexts :
         Marked(compared_groups, k)
           => /\ Marked(compared_groups', k)
              /\ calls'[k] = calls[k]]_vars

\* a sweep has passed over a marked key that has two rows or more and was
\* never submitted: it was marked when it had one row
C29_Witness ==
    /\ lastEval.outcome = "already_compared"
    /\ CountRows(lastEval.key) >= 2
    /\ Marked(compared_groups, lastEval.key)
    /\ calls[lastEval.key] = 0

\* the recordings (file names) that have a row with this key
RecordingsOf(gk) ==
    {homilies[i].filename : i \in {j \in DOMAIN homilies : homilies[j].group_key = gk}}

\* C30: the classifier is asked about a key only when at least two
\* distinct recordings (file names) share the key; a recording analysed
\* more than once does not make its key be compared.
C30_ComparedOnlyWithTwoRecordings ==
    [][\A k \in KeyTexts :
         calls'[k] > calls[k] => Cardinality(RecordingsOf(k)) >= 2]_vars

-----------------------------------------------------------------------------
(* Claim about the number of cues.                                         *)

\* the lines read so far that match the separator pattern and whose
\* timestamps parse
SeparatorsRead ==
    {i \in 1..(ln - 1) :
        LET m == match(strip(lines[i]))
        IN  /\ m.ok
            /\ parse_timestamp(m.start_str).ok
            /\ parse_timestamp(m.end_str).ok}

\* C27: the parser emits at most one cue per valid separator line, also
\* for documents with "-->" lines that do not match the pattern: the
\* output never holds more cues than valid separator lines were read, no
\* cue of one separator is in it twice.
C27_AtMostOneCuePerSeparator == Len(entries) <= Cardinality(SeparatorsRead)

-----------------------------------------------------------------------------
(* Claim about the outcomes of a pass.                                     *)

\* the alerts that report that no boundary was found: of the fallback's
\* two except clauses and of `if homily_start is None`
NotFoundAlerts == {"gpt_invalid_json", "gpt_failed", "start_not_found"}

\* the trim was invoked, with the start and the end the pass settled on
Trimmed ==
    /\ trim # None
    /\ homily_start # None
    /\ homily_end # None
    /\ trim[1] = <<homily_start[1], homily_end[1]>>

\* C28: a pass ends by no exception and in one of two outcomes: the trim
\* invoked with homily_start and homily_end both defined and no
\* boundary-not-found alert, or a boundary-not-found alert and no trim.
C28_TrimOrBoundaryNotFound ==
    /\ dpc # "raised"
    /\ trim # None => Trimmed
    /\ dpc = "done"
         => \/ Trimmed /\ alerts \cap NotFoundAlerts = {}
            \/ trim = None /\ alerts \cap NotFoundAlerts # {}

\* a pass that trims after the fallback, ffmpeg failing
C28_Witness ==
    /\ dpc = "done"
    /\ gpt_calls = 1
    /\ Trimmed
    /\ alerts = {"ffmpeg_error"}

-----------------------------------------------------------------------------
(* Claim about a failure of the alerting collaborator.                     *)

\* C24: an alert whose SMTP session fails never aborts the pass: no
\* exception leaves the pass, after a failed suspicious-duration alert the
\* trim is still invoked, and after a failed alert of the parser the pass
\* goes on to the detection.
C24_AlertFailureNeverAborts ==
    /\ undelivered # {} => dpc # "raised"
    /\ "suspicious_duration" \in undelivered => trim # None
    /\ "invalid_timestamps" \in undelivered => dpc \in {"parsed", "done"}

\* a suspicious-duration alert that was not delivered, and the trim
C24_Witness ==
    /\ dpc = "done"
    /\ lines # <<>>
    /\ "suspicious_duration" \in undelivered
    /\ trim # None

-----------------------------------------------------------------------------
(* Claims about the S3 alerts.                                             *)

\* the step sends an alert email of s3_utils
S3MailSent == s3_mails'.sent = s3_mails.sent + 1

\* the step withholds one
S3MailWithheld == s3_mails'.withheld = s3_mails.withheld + 1

\* the wait after the n-th alert: 5 minutes, 30 minutes, 1 hour, then 1 day
S3Wait(n) ==
    CASE n = 1 -> 5
      [] n = 2 -> 30
      [] n = 3 -> 60
      [] OTHER -> 1440

\* C25: an S3 alert is sent only when no alert state exists or now >=
\* next_allowed, and withheld only otherwise, so the first is immediate;
\* the waits imposed by the 1st, 2nd, 3rd and any later alert sent since
\* the last reset are 5 minutes, 30 minutes, 1 hour and 1 day, and the
\* stored stage is within 0..3.
C25_S3AlertBackoff ==
    [][/\ S3MailSent
          => /\ \/ S3_ALERT_STATE = None
                \/ s3_clock >= S3_ALERT_STATE[1].next_allowed
             /\ S3_ALERT_STATE' # None
             /\ S3_ALERT_STATE'[1].stage \in 0..3
             /\ S3_ALERT_STATE'[1].next_allowed - s3_clock
                  = S3Wait(s3_mails'.streak)
       /\ S3MailWithheld
          => /\ S3_ALERT_STATE # None
             /\ s3_clock < S3_ALERT_STATE[1].next_allowed
             /\ S3_ALERT_STATE' = S3_ALERT_STATE]_vars

\* five alerts sent with no reset in between, the fifth a day after the
\* fourth
C25_Witness ==
    /\ s3_mails.streak = 5
    /\ s3_mails.withheld > 0
    /\ S3_ALERT_STATE # None
    /\ S3_ALERT_STATE[1].stage = 3
    /\ s3_clock = 1535

\* C26: while no download_file call has succeeded the alert emails are
\* at least the backoff wait apart -- the second at least 5 minutes after
\* the first, the third 30 minutes after the second, the fourth 1 hour
\* after the third, the later ones 1 day -- whether or not list_s3_files
\* succeeds in the iterations.
C26_FailureAlertsBackOff ==
    [][(S3MailSent /\ s3_mails.sent >= 1 /\ ~s3_downloaded')
         => s3_clock - s3_mails.last >= S3Wait(s3_mails.sent)]_vars

-----------------------------------------------------------------------------
(* Claim about the monitoring loop.                                        *)

\* the store holds the key, the clock is past the key's deadline and the
\* key has no ComparisonRecord
DueInStore(k) ==
    /\ IsDateKey(k)
    /\ CountRows(k) >= 1
    /\ AfterNinePM(now, k)
    /\ ~Marked(compared_groups, k)

\* C22: in the monitoring loop a group key of the store that is past its
\* deadline and has no ComparisonRecord is eventually marked compared,
\* the monitor still running.
C22_DueKeyEventuallyMarked ==
    \A k \in KeyTexts :
        (loop # "off" /\ DueInStore(k))
          ~> (Marked(compared_groups, k) /\ loop # "dead")

-----------------------------------------------------------------------------
(* Claim about parse_timestamp.                                            *)

\* the colon-separated fields of the text before its first "."
ColonFields == split(split(tsIn, ".")[1], ":")

\* the text after the first ".", without the "."
FractionText == SubSeq(tsIn, Len(split(tsIn, ".")[1]) + 2, Len(tsIn))

\* two or three fields, each of them an integer for int(), and the
\* fraction, if there is one, an integer too
NumericTimecode ==
    /\ Len(ColonFields) \in {2, 3}
    /\ \A i \in DOMAIN ColonFields : int(ColonFields[i]).ok
    /\ HasChar(tsIn, ".") => int(FractionText).ok

\* h * 3600 + m * 60 + s + mmm / 1000, in milliseconds, hours 0 when there
\* are two fields
TimecodeValue ==
    LET f == [i \in DOMAIN ColonFields |-> int(ColonFields[i]).value]
        mmm == IF HasChar(tsIn, ".") THEN int(FractionText).value ELSE 0
    IN  IF Len(f) = 3 THEN (f[1] * 3600 + f[2] * 60 + f[3]) * 1000 + mmm
        ELSE (f[1] * 60 + f[2]) * 1000 + mmm

\* C21: parse_timestamp returns h*3600 + m*60 + s + mmm/1000 for a timecode
\* of three numeric fields, takes hours as 0 for one of two, returns a
\* non-negative value, and fails with a ValueError for any other number of
\* fields or a field that is not numeric.
C21_ParseTimestampContract ==
    tsOut # None
      => IF NumericTimecode
         THEN /\ tsOut[1].ok
              /\ tsOut[1].value = TimecodeValue
              /\ tsOut[1].value >= 0
         ELSE ~tsOut[1].ok

====
